---- MODULE Spec2Model ----
(***************************************************************************)
(* Model of smart_maintenance_agent.py: the per-device state store, the    *)
(* threshold risk scorer, the gated evidence retrieval, the plan composer, *)
(* the alert and the five-stage coordinator.                               *)
(*                                                                         *)
(* Units.  Sensor readings are in hundredths (85.00 C is 8500, 7.5 is 750, *)
(* 90 % is 9000).  Risk values and alert thresholds are in hundredths      *)
(* (0.7 is 70); the un-rounded sum inside compute_simple_risk is carried   *)
(* in ten-thousandths so that round(x, 2) is a real conversion.  The ETA   *)
(* is in tenths of an hour (3.5 h is 35).  Text is modelled by records of  *)
(* the values the f-strings embed; a snippet is its body and its length.   *)
(***************************************************************************)
EXTENDS Integers, Sequences, FiniteSets, TLC

(* ----------------------------- bounds --------------------------------- *)
\* coordinator runs per behaviour of Spec
MaxRuns == 2
\* update_state calls per behaviour of SpecStore
MaxRecords == 102

(* ------------------------ program constants --------------------------- *)
HistoryCap == 100
TempLimit == 8500
PressureLimit == 750
CpuLimit == 9000
TempWeight == 4000
PressureWeight == 3000
CpuWeight == 2000
RiskFloor == 0
RiskCeil == 10000
DefaultThreshold == 70
DefaultTopK == 3
AlertCutoff == 70
EtaCutoff == 70
EtaHigh == 35
EtaLow == 20
SnippetCap == 500
PlanEvidenceCap == 3
PlanSnippetCap == 300
NumSteps == 8

(* ------------------------------ inputs -------------------------------- *)
\* an optional event key is << >> when the key is absent, << v >> when set
Absent == << >>
Devices == {"pump-17", "pump-1"}
Temperatures == {8500, 9200}
Pressures == {750, 820}
CpuLoads == {8800, 9000, 9100}
\* values of the optional event keys alert_threshold and topK
ThresholdInputs == {Absent, <<50>>, <<90>>}
TopKInputs == {Absent, <<1>>, <<4>>}

Events ==
    [deviceId : Devices, Temperature : Temperatures, Pressure : Pressures,
     CPU_Usage : CpuLoads, alert_threshold : ThresholdInputs, topK : TopKInputs]

\* The search index in the service's relevance order.  The second document
\* has neither title nor content (its text is in "chunk") nor source.
Index ==
    << [title |-> "Bearing manual", content |-> [body |-> "b1", len |-> 620],
        chunk |-> [body |-> "", len |-> 0], source |-> "oem.pdf"],
       [title |-> "", content |-> [body |-> "", len |-> 0],
        chunk |-> [body |-> "b2", len |-> 120], source |-> ""],
       [title |-> "LOTO procedure", content |-> [body |-> "b3", len |-> 350],
        chunk |-> [body |-> "", len |-> 0], source |-> "site-sop"],
       [title |-> "Vibration guide", content |-> [body |-> "b4", len |-> 80],
        chunk |-> [body |-> "", len |-> 0], source |-> ""] >>

(* ------------------------------ helpers ------------------------------- *)
Min(a, b) == IF a <= b THEN a ELSE b
Max(a, b) == IF a >= b THEN a ELSE b

\* s[-n:]
LastN(s, n) == IF Len(s) <= n THEN s ELSE SubSeq(s, Len(s) - n + 1, Len(s))

\* s[:n]
FirstN(s, n) == IF Len(s) <= n THEN s ELSE SubSeq(s, 1, n)

\* text[:n] on a snippet
Truncate(text, n) == [body |-> text.body, len |-> Min(text.len, n)]

\* round(x, 2): ten-thousandths to the nearest hundredth
Round2(x) == (x + 50) \div 100

(* --------------------------- device state ----------------------------- *)
DefaultRecord == [history |-> <<>>, lastRisk |-> 0]

update_state_keep_oldest(S, deviceId, Temperature, Pressure, CPU_Usage, risk) ==
    LET S0 == IF deviceId \in DOMAIN S THEN S
              ELSE [d \in DOMAIN S \cup {deviceId} |->
                        IF d = deviceId THEN DefaultRecord ELSE S[d]]
        h1 == Append(S0[deviceId].history,
                     [T |-> Temperature, P |-> Pressure, CPU |-> CPU_Usage, risk |-> risk])
    IN  [S0 EXCEPT ![deviceId] = [history |-> FirstN(h1, HistoryCap), lastRisk |-> risk]]

update_state_stale_risk(S, deviceId, Temperature, Pressure, CPU_Usage, risk) ==
    LET S0 == IF deviceId \in DOMAIN S THEN S
              ELSE [d \in DOMAIN S \cup {deviceId} |->
                        IF d = deviceId THEN DefaultRecord ELSE S[d]]
        h1 == Append(S0[deviceId].history,
                     [T |-> Temperature, P |-> Pressure, CPU |-> CPU_Usage, risk |-> risk])
    IN  [S0 EXCEPT ![deviceId] = [history |-> LastN(h1, HistoryCap),
                                  lastRisk |-> IF Len(h1) = 1 THEN risk ELSE @.lastRisk]]

update_state(S, deviceId, Temperature, Pressure, CPU_Usage, risk) ==
    LET S0 == IF deviceId \in DOMAIN S THEN S
              ELSE [d \in DOMAIN S \cup {deviceId} |->
                        IF d = deviceId THEN DefaultRecord ELSE S[d]]
        h1 == Append(S0[deviceId].history,
                     [T |-> Temperature, P |-> Pressure, CPU |-> CPU_Usage, risk |-> risk])
    IN  [S0 EXCEPT ![deviceId] = [history |-> LastN(h1, HistoryCap), lastRisk |-> risk]]

\* STATE.get(deviceId, {...}): for a known device the result IS the stored
\* dict (a reference), for an unknown one a fresh default dict.
read_last_state(S, deviceId) ==
    IF deviceId \in DOMAIN S THEN [ref |-> "STATE", key |-> deviceId]
    ELSE [ref |-> "fresh", value |-> DefaultRecord]

\* the dict a result of read_last_state denotes, read while the store is S
Deref(S, r) == IF r.ref = "STATE" THEN S[r.key] ELSE r.value

(* ----------------------------- risk scorer ---------------------------- *)
compute_simple_risk_inclusive(T, P, CPU) ==
    LET r1 == RiskFloor + (IF T >= TempLimit THEN TempWeight ELSE 0)
        r2 == r1 + (IF P >= PressureLimit THEN PressureWeight ELSE 0)
        r3 == r2 + (IF CPU >= CpuLimit THEN CpuWeight ELSE 0)
    IN  Round2(Min(RiskCeil, Max(RiskFloor, r3)))

compute_simple_risk_cpu85(T, P, CPU) ==
    LET r1 == RiskFloor + (IF T > TempLimit THEN TempWeight ELSE 0)
        r2 == r1 + (IF P > PressureLimit THEN PressureWeight ELSE 0)
        r3 == r2 + (IF CPU > TempLimit THEN CpuWeight ELSE 0)
    IN  Round2(Min(RiskCeil, Max(RiskFloor, r3)))

compute_simple_risk(T, P, CPU) ==
    LET r1 == RiskFloor + (IF T > TempLimit THEN TempWeight ELSE 0)
        r2 == r1 + (IF P > PressureLimit THEN PressureWeight ELSE 0)
        r3 == r2 + (IF CPU > CpuLimit THEN CpuWeight ELSE 0)
    IN  Round2(Min(RiskCeil, Max(RiskFloor, r3)))

FailureModes == <<"overheating", "bearing wear", "misalignment">>

(* ------------------------------ state --------------------------------- *)
VARIABLES
    state,             \* the module-level dict STATE: deviceId -> [history, lastRisk]
    searchConfigured,  \* all of AZURE_SEARCH_SERVICE / _API_KEY / _INDEX are set
    pc,                \* position of run_coordinator
    event,             \* the event of the current run, <<>> before the first
    thr,               \* run_coordinator's local thr
    topK,              \* run_coordinator's local topK
    pred,              \* result of predict_failure_risk, <<>> or <<dict>>
    query,             \* query handed to retrieve_docs, <<>> or <<query>>
    evidence,          \* run_coordinator's local evidence
    plan_text,         \* result of plan_repair_workflow, <<>> or <<plan>>
    alert,             \* result of send_alert, <<>> or <<dict>>
    report,            \* value returned by run_coordinator, <<>> or <<report>>
    error,             \* exception that left run_coordinator, <<>> or <<name>>
    calls,             \* functions entered by the current run, in order
    recorded,          \* every entry ever passed to update_state, per device
    nRuns,             \* coordinator runs started
    nRecords           \* direct update_state calls made (SpecStore)

vars == << state, searchConfigured, pc, event, thr, topK, pred, query, evidence,
           plan_text, alert, report, error, calls, recorded, nRuns, nRecords >>

runVars == << pc, event, thr, topK, pred, query, evidence, plan_text, alert,
              report, error, calls, nRuns >>

Init ==
    /\ state = << >>
    /\ searchConfigured \in BOOLEAN
    /\ pc = "idle"
    /\ event = << >>
    /\ thr = DefaultThreshold
    /\ topK = DefaultTopK
    /\ pred = << >>
    /\ query = << >>
    /\ evidence = << >>
    /\ plan_text = << >>
    /\ alert = << >>
    /\ report = << >>
    /\ error = << >>
    /\ calls = << >>
    /\ recorded = [d \in Devices |-> << >>]
    /\ nRuns = 0
    /\ nRecords = 0

(* --------------------------- coordinator ------------------------------ *)
\* event.get(key, default)
EventGet(e, key, default) == IF e[key] = Absent THEN default ELSE e[key][1]

\* run_coordinator is entered with an event; its first three statements
Receive(e) ==
    /\ pc \in {"idle", "done", "aborted"}
    /\ nRuns < MaxRuns
    /\ nRuns' = nRuns + 1
    /\ event' = e
    /\ thr' = EventGet(e, "alert_threshold", DefaultThreshold)
    /\ topK' = EventGet(e, "topK", DefaultTopK)
    /\ pred' = << >>
    /\ query' = << >>
    /\ evidence' = << >>
    /\ plan_text' = << >>
    /\ alert' = << >>
    /\ report' = << >>
    /\ error' = << >>
    /\ calls' = << >>
    /\ pc' = "predict"
    /\ UNCHANGED << state, searchConfigured, recorded, nRecords >>

\* the dict predict_failure_risk returns when called while the store is S;
\* S1 is the store after its update_state call
PredictOut(S, S1, deviceId, Temperature, Pressure, CPU_Usage) ==
    LET risk == compute_simple_risk(Temperature, Pressure, CPU_Usage)
        prev == read_last_state(S, deviceId)
    IN  [deviceId |-> deviceId,
         risk |-> risk,
         rationale |-> [prev_risk |-> Deref(S1, prev).lastRisk, now |-> risk,
                        T |-> Temperature, P |-> Pressure, CPU |-> CPU_Usage],
         failure_modes |-> FailureModes,
         history_length |-> Len(S1[deviceId].history)]

\* stage 1: predict_failure_risk
Predict ==
    /\ pc = "predict"
    /\ LET d == event.deviceId
           risk == compute_simple_risk(event.Temperature, event.Pressure, event.CPU_Usage)
           S1 == update_state(state, d, event.Temperature, event.Pressure,
                              event.CPU_Usage, risk)
       IN  /\ state' = S1
           /\ pred' = << PredictOut(state, S1, d, event.Temperature, event.Pressure,
                                    event.CPU_Usage) >>
           /\ recorded' = [recorded EXCEPT ![d] =
                             Append(@, [T |-> event.Temperature, P |-> event.Pressure,
                                        CPU |-> event.CPU_Usage, risk |-> risk])]
    /\ calls' = Append(calls, "predict_failure_risk")
    /\ pc' = "retrieve"
    /\ UNCHANGED << searchConfigured, event, thr, topK, query, evidence, plan_text,
                    alert, report, error, nRuns, nRecords >>

(* ----------------------------- retrieval ------------------------------ *)
\* the condition guarding stage 2
ShouldRetrieve_strict(risk, threshold) == risk > threshold

ShouldRetrieve(risk, threshold) == risk >= threshold

\* the f-string query: the failure modes joined, then pressure and temperature
BuildQuery(p, e) ==
    [terms |-> p.failure_modes, pressure |-> e.Pressure, temperature |-> e.Temperature]

\* one search hit as retrieve_docs stores it
ToEvidence(r) ==
    [title |-> r.title,
     snippet |-> Truncate(IF r.content.len > 0 THEN r.content ELSE r.chunk, SnippetCap),
     source |-> r.source]

\* the list retrieve_docs returns when the service answers with its n best hits
retrieve_docs(n) == [i \in 1..n |-> ToEvidence(Index[i])]

\* stage 2 when the risk is below the threshold: evidence stays []
SkipRetrieve ==
    /\ pc = "retrieve"
    /\ ~ShouldRetrieve(pred[1].risk, thr)
    /\ pc' = "plan"
    /\ UNCHANGED << state, searchConfigured, event, thr, topK, pred, query, evidence,
                    plan_text, alert, report, error, calls, recorded, nRuns, nRecords >>

\* stage 2, retrieve_docs returning: the service answers with at most top=topK hits
RetrieveOk(n) ==
    /\ pc = "retrieve"
    /\ ShouldRetrieve(pred[1].risk, thr)
    /\ searchConfigured
    /\ n <= topK
    /\ query' = << BuildQuery(pred[1], event) >>
    /\ calls' = Append(calls, "retrieve_docs")
    /\ evidence' = retrieve_docs(n)
    /\ pc' = "plan"
    /\ UNCHANGED << state, searchConfigured, event, thr, topK, pred, plan_text,
                    alert, report, error, recorded, nRuns, nRecords >>

RetrieveRaise_degraded(kind) ==
    /\ pc = "retrieve"
    /\ ShouldRetrieve(pred[1].risk, thr)
    /\ kind = IF searchConfigured THEN "RetrievalError" ELSE "RuntimeError"
    /\ query' = << BuildQuery(pred[1], event) >>
    /\ calls' = Append(calls, "retrieve_docs")
    /\ error' = << kind >>
    /\ pc' = "plan"
    /\ UNCHANGED << state, searchConfigured, event, thr, topK, pred, evidence,
                    plan_text, alert, report, recorded, nRuns, nRecords >>

\* stage 2, retrieve_docs raising: build_search_client's RuntimeError when the
\* configuration is incomplete, otherwise a failure of client.search.  Nothing
\* in run_coordinator catches it.
RetrieveRaise(kind) ==
    /\ pc = "retrieve"
    /\ ShouldRetrieve(pred[1].risk, thr)
    /\ kind = IF searchConfigured THEN "RetrievalError" ELSE "RuntimeError"
    /\ query' = << BuildQuery(pred[1], event) >>
    /\ calls' = Append(calls, "retrieve_docs")
    /\ error' = << kind >>
    /\ pc' = "aborted"
    /\ UNCHANGED << state, searchConfigured, event, thr, topK, pred, evidence,
                    plan_text, alert, report, recorded, nRuns, nRecords >>

(* ------------------------------- plan --------------------------------- *)
Placeholder == [kind |-> "placeholder",
                text |-> "- No external evidence referenced in this run."]

DocLabel(i) == CASE i = 1 -> "Doc 1" [] i = 2 -> "Doc 2" [] OTHER -> "Doc 3"

\* ev_lines of plan_repair_workflow
PlanEvidenceLines(ev) ==
    LET head == FirstN(ev, PlanEvidenceCap)
    IN  [i \in 1..Len(head) |->
            [kind |-> "doc",
             title |-> IF head[i].title # "" THEN head[i].title ELSE DocLabel(i),
             snippet |-> Truncate(head[i].snippet, PlanSnippetCap),
             source |-> head[i].source]]

Eta_strict(risk) == IF risk > EtaCutoff THEN EtaHigh ELSE EtaLow

Eta(risk) == IF risk >= EtaCutoff THEN EtaHigh ELSE EtaLow

plan_repair_workflow(deviceId, risk, failure_modes, ev) ==
    [deviceId |-> deviceId,
     risk |-> risk,
     failure_modes |-> failure_modes,
     evidence |-> IF PlanEvidenceLines(ev) # << >> THEN PlanEvidenceLines(ev)
                  ELSE << Placeholder >>,
     steps |-> NumSteps,
     eta |-> Eta(risk)]

\* stage 3
Plan ==
    /\ pc = "plan"
    /\ plan_text' = << plan_repair_workflow(event.deviceId, pred[1].risk,
                                            pred[1].failure_modes, evidence) >>
    /\ calls' = Append(calls, "plan_repair_workflow")
    /\ pc' = "alert"
    /\ UNCHANGED << state, searchConfigured, event, thr, topK, pred, query, evidence,
                    alert, report, error, recorded, nRuns, nRecords >>

(* ------------------------------- alert -------------------------------- *)
send_alert(deviceId, risk) ==
    [alert |-> IF risk >= AlertCutoff THEN "TRIGGERED" ELSE "NO_ALERT",
     deviceId |-> deviceId, risk |-> risk]

\* stage 4
Alert ==
    /\ pc = "alert"
    /\ alert' = << send_alert(event.deviceId, pred[1].risk) >>
    /\ calls' = Append(calls, "send_alert")
    /\ pc' = "report"
    /\ UNCHANGED << state, searchConfigured, event, thr, topK, pred, query, evidence,
                    plan_text, report, error, recorded, nRuns, nRecords >>

(* ------------------------------- report ------------------------------- *)
\* the coordinator's own evidence section
ReportEvidenceLines(ev) ==
    IF ev # << >>
    THEN [i \in 1..Len(ev) |->
            [kind |-> "doc", title |-> ev[i].title, snippet |-> ev[i].snippet,
             source |-> ev[i].source]]
    ELSE << Placeholder >>

\* stage 5: the report is assembled and returned
Report ==
    /\ pc = "report"
    /\ report' = << [deviceId |-> event.deviceId,
                     risk |-> pred[1].risk,
                     rationale |-> pred[1].rationale,
                     failure_modes |-> pred[1].failure_modes,
                     evidence |-> ReportEvidenceLines(evidence),
                     plan |-> plan_text[1],
                     alert |-> alert[1].alert,
                     threshold |-> thr] >>
    /\ pc' = "done"
    /\ UNCHANGED << state, searchConfigured, event, thr, topK, pred, query, evidence,
                    plan_text, alert, error, calls, recorded, nRuns, nRecords >>

Next ==
    \/ \E e \in Events : Receive(e)
    \/ Predict
    \/ SkipRetrieve
    \/ \E n \in 0..Len(Index) : RetrieveOk(n)
    \/ \E kind \in {"RuntimeError", "RetrievalError"} : RetrieveRaise(kind)
    \/ Plan
    \/ Alert
    \/ Report

Spec == Init /\ [][Next]_vars

(* ------------------- the state store driven directly ------------------ *)
\* the n-th reading of a device on a steadily degrading pump: temperature
\* passes 85.00 at n = 51, pressure 7.50 at n = 26, CPU 90.00 at n = 76
RampTemperature(n) == 8000 + 10 * n
RampPressure(n) == 725 + n
RampCpu(n) == 8925 + n

\* one update_state call made directly on the store
RecordReading(d) ==
    /\ nRecords < MaxRecords
    /\ nRecords' = nRecords + 1
    /\ LET n == Len(recorded[d]) + 1
           T == RampTemperature(n)
           P == RampPressure(n)
           C == RampCpu(n)
           risk == compute_simple_risk(T, P, C)
       IN  /\ state' = update_state(state, d, T, P, C, risk)
           /\ recorded' = [recorded EXCEPT ![d] =
                             Append(@, [T |-> T, P |-> P, CPU |-> C, risk |-> risk])]
    /\ UNCHANGED << searchConfigured, runVars >>

NextStore == \E d \in Devices : RecordReading(d)

SpecStore == Init /\ [][NextStore]_vars

(* ============================ properties ============================== *)
Called(f) == \E i \in 1..Len(calls) : calls[i] = f

PastRetrieval == pc \in {"plan", "alert", "report", "done"}

\* the entry the current run handed to update_state
RunEntry ==
    [T |-> event.Temperature, P |-> event.Pressure, CPU |-> event.CPU_Usage,
     risk |-> pred[1].risk]

\* C1: the alert status of stage 4, and the one printed in the report next to
\* the run's threshold, is TRIGGERED exactly when the run's risk is at or
\* above the run's own alert threshold, the one that gated retrieval.
C1_AlertUsesRunThreshold ==
    /\ alert # << >> =>
          (alert[1].alert = "TRIGGERED" <=> pred[1].risk >= thr)
    /\ report # << >> =>
          (report[1].alert = "TRIGGERED" <=> report[1].risk >= report[1].threshold)

\* lastRisk of device d as it stood before the latest update_state call for d
PriorRisk(d) ==
    IF Len(recorded[d]) >= 2 THEN recorded[d][Len(recorded[d]) - 1].risk ELSE 0

\* C2: the rationale shows as previous risk the device's lastRisk from before
\* this run recorded its reading (0.0 for a new device) and as current risk
\* the score of this run.
C2_RationaleShowsPriorRisk ==
    pred # << >> =>
        /\ pred[1].rationale.prev_risk = PriorRisk(event.deviceId)
        /\ pred[1].rationale.now = pred[1].risk

IsScenarioA ==
    /\ nRuns > 0
    /\ event.deviceId = "pump-17"
    /\ event.Temperature = 9200
    /\ event.Pressure = 820
    /\ event.CPU_Usage = 8800
    /\ event.alert_threshold = Absent

\* C3 as stated: scenario A yields risk 0.9, retrieval, TRIGGERED and ETA 3.5.
C3_ScenarioA_Risk09 ==
    IsScenarioA =>
        /\ pred # << >> => pred[1].risk = 90
        /\ pc \in {"plan", "aborted"} => Called("retrieve_docs")
        /\ plan_text # << >> => plan_text[1].eta = 35
        /\ alert # << >> => alert[1].alert = "TRIGGERED"
        /\ report # << >> =>
              /\ report[1].risk = 90
              /\ report[1].alert = "TRIGGERED"
              /\ report[1].plan.eta = 35

\* C3 amended: scenario A (92.0, 8.2, 88.0, default threshold) yields risk 0.7,
\* because a CPU load of 88 is not above 90; retrieval is invoked, and a run
\* whose retrieval returns reports TRIGGERED and an ETA of 3.5.
C3_ScenarioA_Risk07 ==
    IsScenarioA =>
        /\ pred # << >> => pred[1].risk = 70
        /\ pc \in {"plan", "aborted"} => Called("retrieve_docs")
        /\ plan_text # << >> => plan_text[1].eta = 35
        /\ alert # << >> => alert[1].alert = "TRIGGERED"
        /\ report # << >> =>
              /\ report[1].risk = 70
              /\ report[1].alert = "TRIGGERED"
              /\ report[1].plan.eta = 35

C3_Witness == IsScenarioA /\ pc = "done" /\ Called("retrieve_docs")

\* C4: retrieval is invoked exactly when the run's risk is at or above the
\* run's threshold; below it the retriever is never called, the plan composer
\* gets an empty evidence list and the plan's evidence section is the
\* placeholder line.
C4_RetrievalGated ==
    /\ pc \in {"predict", "retrieve"} => ~Called("retrieve_docs")
    /\ PastRetrieval \/ pc = "aborted" =>
          (Called("retrieve_docs") <=> pred[1].risk >= thr)
    /\ pred # << >> /\ pred[1].risk < thr =>
          /\ ~Called("retrieve_docs")
          /\ evidence = << >>
          /\ pc # "aborted"
          /\ plan_text # << >> =>
                plan_text[1].evidence =
                    << [kind |-> "placeholder",
                        text |-> "- No external evidence referenced in this run."] >>

C4_Witness ==
    /\ pc = "done"
    /\ pred[1].risk < thr
    /\ plan_text[1].evidence = << Placeholder >>
    /\ thr # 70

\* C5: after n update_state calls for a device its history is the min(n, 100)
\* most recent entries in recording order, so it never exceeds 100 entries and
\* after 101 calls the first entry is gone.
C5_HistoryIsRecentWindow ==
    \A d \in Devices :
        LET n == Len(recorded[d])
            k == IF n <= 100 THEN n ELSE 100
        IN  IF n = 0 THEN d \notin DOMAIN state
            ELSE /\ d \in DOMAIN state
                 /\ Len(state[d].history) = k
                 /\ \A i \in 1..k : state[d].history[i] = recorded[d][n - k + i]
                 /\ n >= 101 =>
                       \A i \in 1..k : state[d].history[i] # recorded[d][1]

C5_Witness ==
    \E d \in Devices :
        /\ Len(recorded[d]) = 101
        /\ Len(state[d].history) = 100
        /\ state[d].history[1] = recorded[d][2]

\* C6: for every device lastRisk is the risk of the last history entry when
\* the history is not empty, and read_last_state of a device never recorded
\* gives an empty history and lastRisk 0.0.
C6_LastRiskMatchesHistory ==
    \A d \in Devices :
        IF d \in DOMAIN state
        THEN /\ state[d].history # << >>
             /\ state[d].lastRisk = state[d].history[Len(state[d].history)].risk
        ELSE Deref(state, read_last_state(state, d)) = [history |-> << >>, lastRisk |-> 0]

C6_Witness ==
    \E d, e \in Devices :
        /\ d \in DOMAIN state
        /\ Len(recorded[d]) > 100
        /\ state[d].lastRisk = 90
        /\ e \notin DOMAIN state

\* the score the rule prescribes for a reading, in hundredths
RuleScore(T, P, C) ==
    (IF T > 8500 THEN 40 ELSE 0) + (IF P > 750 THEN 30 ELSE 0)
        + (IF C > 9000 THEN 20 ELSE 0)

\* C7: the score of a reading is 0.4 if T > 85 plus 0.3 if P > 7.5 plus 0.2 if
\* CPU > 90, each comparison strict; it lies in [0, 1], never exceeds 0.9 and
\* is the same for the same reading whatever the device and its history.
C7_ScoreIsThresholdSum ==
    /\ \A d \in DOMAIN state : \A i \in 1..Len(state[d].history) :
          LET h == state[d].history[i]
          IN  /\ h.risk = RuleScore(h.T, h.P, h.CPU)
              /\ h.risk >= 0 /\ h.risk <= 100 /\ h.risk <= 90
    /\ pred # << >> =>
          pred[1].risk = RuleScore(event.Temperature, event.Pressure, event.CPU_Usage)
    /\ \A d1, d2 \in DOMAIN state :
          \A i \in 1..Len(state[d1].history), j \in 1..Len(state[d2].history) :
              LET a == state[d1].history[i]
                  b == state[d2].history[j]
              IN  (a.T = b.T /\ a.P = b.P /\ a.CPU = b.CPU) => a.risk = b.risk

C7_Witness ==
    /\ pc = "done"
    /\ event.Temperature = 8500 /\ event.Pressure = 750 /\ event.CPU_Usage = 9000
    /\ pred[1].risk = 0
    /\ event.deviceId \in DOMAIN state
    /\ Len(state[event.deviceId].history) = 2
    /\ state[event.deviceId].history[1].risk = 90

\* C8: a run whose retrieval raises ends there with the error: no plan, no
\* alert, no report and no evidence, nothing retried, while the entry and the
\* lastRisk recorded in stage 1 stay in the store.
C8_RetrievalFailureAborts ==
    /\ error # << >> =>
          /\ pc = "aborted"
          /\ calls = << "predict_failure_risk", "retrieve_docs" >>
          /\ plan_text = << >>
          /\ alert = << >>
          /\ report = << >>
          /\ evidence = << >>
          /\ state[event.deviceId].lastRisk = pred[1].risk
          /\ state[event.deviceId].history[Len(state[event.deviceId].history)] = RunEntry
    /\ pc = "aborted" => error # << >>
    /\ PastRetrieval /\ pred[1].risk >= thr => searchConfigured

C8_Witness ==
    /\ pc = "aborted"
    /\ error = << "RetrievalError" >>
    /\ Len(state[event.deviceId].history) = 2

\* C9: the ETA of a composed plan is 3.5 hours exactly when the risk is at
\* least 0.7 and 2.0 hours otherwise, whatever the run's alert threshold.
C9_EtaFromFixedCutoff ==
    /\ plan_text # << >> =>
          plan_text[1].eta = IF pred[1].risk >= 70 THEN 35 ELSE 20
    /\ report # << >> =>
          report[1].plan.eta = IF report[1].risk >= 70 THEN 35 ELSE 20

C9_Witness ==
    /\ pc = "done"
    /\ thr = 90
    /\ pred[1].risk = 70
    /\ report[1].plan.eta = 35

\* the documents an evidence section lists, in order; none for the placeholder
ListedDocs(section) ==
    IF section = << Placeholder >> THEN << >>
    ELSE [i \in 1..Len(section) |-> section[i].snippet.body]

\* C10: the report's own evidence section and the one of the embedded plan
\* list the same documents in the same order, and both show the placeholder
\* exactly when no evidence was obtained.
C10_EvidenceSectionsAgree ==
    report # << >> =>
        /\ ListedDocs(report[1].evidence) = ListedDocs(report[1].plan.evidence)
        /\ (report[1].evidence = << Placeholder >>) <=> (evidence = << >>)
        /\ (report[1].plan.evidence = << Placeholder >>) <=> (evidence = << >>)

====
